---- MODULE Spec2Model ----
(***************************************************************************)
(* Model of the addon blueprint (index.js): the option derivation          *)
(* (testAppInfoFromOptions, addonInfoFromOptions, withoutAddonOptions),    *)
(* the template locals (blueprintOptions fragment) and the afterInstall    *)
(* hook with its concurrently awaited follow-up tasks.                     *)
(*                                                                         *)
(* Strings that the code transforms or compares are sequences of           *)
(* one-character strings; a file-system path is a sequence of segments.    *)
(***************************************************************************)
EXTENDS Integers, Sequences, FiniteSets, TLC

VARIABLES
    options,      \* the options record handed to the blueprint (key -> value)
    cwd,          \* the process's current working directory (absolute path)
    pc,           \* position of afterInstall / of the pure-function driver
    result,       \* how afterInstall returned: "none", "ok", "SilentError", "rejected"
    appOptions,   \* the option set handed to appBlueprint.install
    task,         \* status of each follow-up task
    copied,       \* staged files fs.copy has copied so far
    copyDest,     \* the absolute directory fs.copy writes into
    execs,        \* the external processes launched, in order
    fs,           \* the file tree: path of each existing file -> who wrote it
    touched,      \* per task: the paths it read, wrote and deleted so far
    settledAt,    \* status of every task at the moment afterInstall returned
    localsOut,    \* the record returned by locals(options)
    blueprintFound, \* whether lookupBlueprint('app') finds the app blueprint
    install       \* the nested appBlueprint.install: "none", "pending", "ok", "failed"

vars == <<options, cwd, pc, result, appOptions, task, copied, copyDest,
          execs, fs, touched, settledAt, localsOut, blueprintFound, install>>

----------------------------------------------------------------------------
(* Strings                                                                 *)

UpperChars == <<"A","B","C","D","E","F","G","H","I","J","K","L","M",
                "N","O","P","Q","R","S","T","U","V","W","X","Y","Z">>
LowerChars == <<"a","b","c","d","e","f","g","h","i","j","k","l","m",
                "n","o","p","q","r","s","t","u","v","w","x","y","z">>
DigitChars == <<"0","1","2","3","4","5","6","7","8","9">>

Range(s) == {s[i] : i \in DOMAIN s}

IsUpper(c) == c \in Range(UpperChars)
IsLowerOrDigit(c) == c \in Range(LowerChars) \cup Range(DigitChars)

\* String.prototype.toLowerCase on one character
ToLowerChar(c) ==
    IF IsUpper(c)
    THEN LowerChars[CHOOSE i \in DOMAIN UpperChars : UpperChars[i] = c]
    ELSE c

RECURSIVE Flatten(_)
Flatten(ss) == IF ss = <<>> THEN <<>> ELSE Head(ss) \o Flatten(Tail(ss))

\* stringUtil.decamelize: str.replace(/([a-z\d])([A-Z])/g, '$1_$2').toLowerCase()
Decamelize(s) ==
    Flatten([i \in DOMAIN s |->
        IF i > 1 /\ IsLowerOrDigit(s[i-1]) /\ IsUpper(s[i])
        THEN <<"_", ToLowerChar(s[i])>>
        ELSE <<ToLowerChar(s[i])>>])

\* stringUtil.dasherize: decamelize(str).replace(/[ _]/g, '-')
Dasherize(s) ==
    LET d == Decamelize(s)
    IN  [i \in DOMAIN d |-> IF d[i] \in {" ", "_"} THEN "-" ELSE d[i]]

\* the option keys whose values are booleans; every other value is a string,
\* except entity (a record) and target (a path)
BoolKeys == {"welcome", "yarn", "vitest", "releaseIt", "skipNpm", "skipGit", "dryRun"}

\* JavaScript truthiness of an option value (absent keys read as undefined)
Has(o, k) == k \in DOMAIN o
Truthy(o, k) ==
    /\ Has(o, k)
    /\ IF k \in BoolKeys THEN o[k] = TRUE ELSE o[k] # <<>>

----------------------------------------------------------------------------
(* Paths                                                                   *)

\* the segments of a path string, split at "/"
RECURSIVE SplitPath(_)
SplitPath(s) ==
    IF \A i \in DOMAIN s : s[i] # "/"
    THEN <<s>>
    ELSE LET k == CHOOSE i \in DOMAIN s :
                      s[i] = "/" /\ \A j \in 1..(i-1) : s[j] # "/"
         IN  <<SubSeq(s, 1, k-1)>> \o SplitPath(SubSeq(s, k+1, Len(s)))

\* path.normalize on the segments of an absolute path
RECURSIVE NormalizeSegs(_, _)
NormalizeSegs(done, rest) ==
    IF rest = <<>> THEN done
    ELSE LET seg == Head(rest)
         IN  IF seg = <<>> \/ seg = <<".">>
             THEN NormalizeSegs(done, Tail(rest))
             ELSE IF seg = <<".", ".">>
             THEN NormalizeSegs(IF done = <<>> THEN <<>>
                                ELSE SubSeq(done, 1, Len(done)-1), Tail(rest))
             ELSE NormalizeSegs(Append(done, seg), Tail(rest))

\* path.join(dir, str) for an absolute dir
PathJoin(dir, str) == NormalizeSegs(<<>>, dir \o SplitPath(str))

\* how the file system resolves a path string handed to fs-extra:
\* absolute strings as they are, relative ones against process.cwd()
FsResolve(str) ==
    IF str # <<>> /\ str[1] = "/"
    THEN NormalizeSegs(<<>>, SplitPath(str))
    ELSE NormalizeSegs(<<>>, cwd \o SplitPath(str))

IsPrefix(p, q) == Len(p) <= Len(q) /\ SubSeq(q, 1, Len(p)) = p

----------------------------------------------------------------------------
(* Option derivation (pure functions)                                      *)

TestAppLiteral == <<"t","e","s","t","-","a","p","p">>
TravisLiteral == <<"t","r","a","v","i","s">>

ADDON_OPTIONS_NoReleaseIt == {"addonLocation", "testAppLocation", "testAppName"}

ADDON_OPTIONS == {"addonLocation", "testAppLocation", "testAppName", "releaseIt"}

\* options.x || fallback
OrElse(o, k, fallback) == IF Truthy(o, k) THEN o[k] ELSE fallback

addonInfoFromOptions(o) ==
    LET addonRawName == o["entity"].name
        dashedName == Dasherize(addonRawName)
    IN  [name |-> [dashed |-> dashedName, raw |-> addonRawName],
         entity |-> o["entity"],
         location |-> OrElse(o, "addonLocation", dashedName)]

testAppInfoFromOptions(o) ==
    LET name == OrElse(o, "testAppName", TestAppLiteral)
        dashedName == Dasherize(name)
    IN  [name |-> [dashed |-> dashedName, raw |-> name],
         location |-> OrElse(o, "testAppLocation", dashedName)]

withoutAddonOptions(o) ==
    [k \in {key \in DOMAIN o : key \notin ADDON_OPTIONS} |-> o[k]]

\* let testAppPath = path.join(options.target, testAppInfo.location)
TestAppPath(o) == PathJoin(o["target"], testAppInfoFromOptions(o).location)

OverriddenKeys ==
    {"target", "skipNpm", "skipGit", "entity", "name", "rawName", "ciProvider", "welcome"}

\* the appOptions literal: the spread first, the explicit keys after it
BuildAppOptions(o) ==
    LET testAppInfo == testAppInfoFromOptions(o)
        spread == withoutAddonOptions(o)
    IN  [k \in DOMAIN spread \cup OverriddenKeys |->
            CASE k = "target"     -> TestAppPath(o)
              [] k = "skipNpm"    -> TRUE
              [] k = "skipGit"    -> TRUE
              [] k = "entity"     -> [name |-> testAppInfo.name.raw]
              [] k = "name"       -> testAppInfo.name.raw
              [] k = "rawName"    -> testAppInfo.name.raw
              [] k = "ciProvider" -> TravisLiteral
              [] k = "welcome"    -> FALSE
              [] OTHER            -> spread[k]]

----------------------------------------------------------------------------
(* locals: the blueprintOptions fragment                                   *)

Token(kind, flag, value) == [kind |-> kind, flag |-> flag, value |-> value]
IndentToken == Token("indent", "", <<>>)      \* `\n            `
OutdentToken == Token("outdent", "", <<>>)    \* `\n          `
SeparatorToken == Token("separator", "", <<>>) \* ',\n            '

\* the array literal of lines 126-135 before filter(Boolean): the option
\* each entry is guarded by, and the text it contributes
FlagEntries ==
    << [key |-> "welcome",         flag |-> "--welcome",           valued |-> FALSE],
       [key |-> "yarn",            flag |-> "--yarn",              valued |-> FALSE],
       [key |-> "vitest",          flag |-> "--vitest",            valued |-> FALSE],
       [key |-> "ciProvider",      flag |-> "--ci-provider=",      valued |-> TRUE],
       [key |-> "addonLocation",   flag |-> "--addon-location=",   valued |-> TRUE],
       [key |-> "testAppLocation", flag |-> "--test-app-location=", valued |-> TRUE],
       [key |-> "testAppName",     flag |-> "--test-app-name=",    valued |-> TRUE],
       [key |-> "releaseIt",       flag |-> "--release-it",        valued |-> FALSE] >>

hasOptions_WithVitest(o) ==
    Truthy(o, "welcome") \/ Truthy(o, "yarn") \/ Truthy(o, "ciProvider")
        \/ Truthy(o, "vitest")

hasOptions(o) == Truthy(o, "welcome") \/ Truthy(o, "yarn") \/ Truthy(o, "ciProvider")

\* [...].filter(Boolean)
RECURSIVE FilterFlags(_, _)
FilterFlags(o, entries) ==
    IF entries = <<>> THEN <<>>
    ELSE LET e == Head(entries)
             rest == FilterFlags(o, Tail(entries))
         IN  IF Truthy(o, e.key)
             THEN <<Token("flag", e.flag, IF e.valued THEN o[e.key] ELSE <<>>)>> \o rest
             ELSE rest

\* Array.prototype.join
RECURSIVE JoinTokens(_, _)
JoinTokens(items, sep) ==
    IF items = <<>> THEN <<>>
    ELSE IF Len(items) = 1 THEN items
    ELSE <<Head(items), sep>> \o JoinTokens(Tail(items), sep)

blueprintOptions(o) ==
    IF hasOptions(o)
    THEN <<IndentToken>> \o JoinTokens(FilterFlags(o, FlagEntries), SeparatorToken)
             \o <<OutdentToken>>
    ELSE <<>>

locals(o) ==
    LET addonInfo == addonInfoFromOptions(o)
        testAppInfo == testAppInfoFromOptions(o)
    IN  [addonInfo |-> addonInfo,
         testAppInfo |-> testAppInfo,
         addonName |-> addonInfo.name.dashed,
         yarn |-> Truthy(o, "yarn"),
         vitest |-> Truthy(o, "vitest"),
         welcome |-> Truthy(o, "welcome"),
         blueprint |-> "addon",
         blueprintOptions |-> blueprintOptions(o),
         pathFromAddonToRoot |->
            [i \in DOMAIN SplitPath(addonInfo.location) |-> <<".", ".">>]]

----------------------------------------------------------------------------
(* The file tree                                                           *)

OverridesLiteral ==
    <<"t","e","s","t","-","a","p","p","-","o","v","e","r","r","i","d","e","s">>
TestsLiteral == <<"t","e","s","t","s">>
PackageJson == <<"package.json">>
TravisYml == <<".travis.yml">>
VitestConfig == <<"vitest.config.js">>

NumOverrideFiles == 2

\* the i-th file name of the generated trees ("o", "oo", ...)
GeneratedFile(i) == [j \in 1..i |-> "o"]

\* files the blueprint renders into <target>/test-app-overrides (relative paths)
StagedFiles == {<<GeneratedFile(i)>> : i \in 1..NumOverrideFiles}

\* files the nested app generator writes into its target (relative paths); with
\* ciProvider 'travis' it emits the CI config that afterInstall deletes
AppFiles == {<<PackageJson>>, <<TravisYml>>, <<GeneratedFile(1)>>}

WriteFile(f, p, tag) == [q \in DOMAIN f \cup {p} |-> IF q = p THEN tag ELSE f[q]]
RemoveFile(f, p) == [q \in DOMAIN f \ {p} |-> f[q]]
FilesUnder(f, dir) == {q \in DOMAIN f : IsPrefix(dir, q) /\ q # dir}
RemoveTree(f, dir) == [q \in DOMAIN f \ (FilesUnder(f, dir) \cup {dir}) |-> f[q]]
DirExists(f, dir) == FilesUnder(f, dir) # {}

RECURSIVE WriteAll(_, _, _, _)
WriteAll(f, dir, rels, tag) ==
    IF rels = {} THEN f
    ELSE LET r == CHOOSE x \in rels : TRUE
         IN  WriteAll(WriteFile(f, dir \o r, tag), dir, rels \ {r}, tag)

\* path.join(options.target, 'test-app-overrides')
OverridesPath(o) == PathJoin(o["target"], OverridesLiteral)

\* path.join(testAppPath, 'package.json') and path.join(testAppPath, '.travis.yml')
PackageJsonPath(o) == PathJoin(TestAppPath(o), PackageJson)
TravisPath(o) == PathJoin(TestAppPath(o), TravisYml)

\* the tree when afterInstall is called: the addon's own rendered files
InitialFs(o) ==
    WriteAll(WriteFile(<<>>, o["target"] \o <<PackageJson>>, "addon"),
             OverridesPath(o), StagedFiles, "override")

----------------------------------------------------------------------------
(* afterInstall and its follow-up tasks                                    *)

TaskNames == {"manifest", "override", "unlink", "vitest", "releaseIt"}

Rejected(st) == st \in {"failed", "copyFailed", "removeFailed"}
Running(st) == st \in {"running", "copying", "removing"}

NoTouch == [r |-> {}, w |-> {}, d |-> {}]
Touch(t, kind, paths) == [touched EXCEPT ![t][kind] = @ \cup paths]

VitestCommand(o) ==
    [file |-> "ember",
     args |-> <<"new", "tests", "-b", "vitest-blueprint", "--skip-git", "--skip-npm">>,
     cwd |-> o["target"]]

ReleaseItCommand(rootPath) ==
    [file |-> "create-rwjblue-release-it-setup", args |-> <<"--no-install">>,
     cwd |-> rootPath]

\* Promise.all(tasks): rejects as soon as one task rejects,
\* fulfils once every task of the array has fulfilled
AnyRejected_Never(t) == FALSE

AnyRejected(t) == \E k \in TaskNames : Rejected(t[k])

AllFulfilled_First(t) == \E k \in TaskNames : t[k] = "ok"

AllFulfilled(t) == \A k \in TaskNames : t[k] \in {"idle", "ok"}

\* the continuation of `await Promise.all(tasks)`, run when a task settles
Settle(t) ==
    IF pc = "awaiting" /\ AnyRejected(t)
    THEN /\ pc' = "returned" /\ result' = "rejected" /\ settledAt' = t
    ELSE IF pc = "awaiting" /\ AllFulfilled(t)
    THEN /\ pc' = "returned" /\ result' = "ok" /\ settledAt' = t
    ELSE UNCHANGED <<pc, result, settledAt>>

if_appBlueprint_Skipped == TRUE

\* if (!appBlueprint) throw ...: whether the guard lets afterInstall go on
if_appBlueprint == blueprintFound

\* lines 22-26: the lookup fails and afterInstall throws the SilentError
LookupFails ==
    /\ pc = "start"
    /\ ~if_appBlueprint
    /\ pc' = "returned"
    /\ result' = "SilentError"
    /\ settledAt' = task
    /\ UNCHANGED <<options, cwd, appOptions, task, copied, copyDest, execs, fs,
                   touched, localsOut, blueprintFound, install>>

\* lines 22-43: the lookup succeeds, appOptions is built and install is called
CallInstall ==
    /\ pc = "start"
    /\ if_appBlueprint
    /\ appOptions' = BuildAppOptions(options)
    /\ install' = "pending"
    /\ pc' = "install"
    /\ UNCHANGED <<options, cwd, result, task, copied, copyDest, execs, fs,
                   touched, settledAt, localsOut, blueprintFound>>

\* the nested generator writes the test app into appOptions.target
InstallResolves ==
    /\ install = "pending"
    /\ install' = "ok"
    /\ fs' = WriteAll(fs, appOptions["target"], AppFiles, "app")
    /\ pc' = IF pc = "install" THEN "tasks" ELSE pc
    /\ UNCHANGED <<options, cwd, result, appOptions, task, copied, copyDest, execs,
                   touched, settledAt, localsOut, blueprintFound>>

\* await appBlueprint.install(appOptions) throws
InstallRejects ==
    /\ install = "pending"
    /\ install' = "failed"
    /\ IF pc = "install"
       THEN /\ pc' = "returned" /\ result' = "rejected" /\ settledAt' = task
       ELSE UNCHANGED <<pc, result, settledAt>>
    /\ UNCHANGED <<options, cwd, appOptions, task, copied, copyDest, execs, fs,
                   touched, localsOut, blueprintFound>>

install_NotAwaited == pc \in {"install", "tasks"}

\* await appBlueprint.install(...): lines 45-71 run once it has resolved
install_Awaited == pc = "tasks"

vitest_Always(o) == TRUE

\* if (options.vitest)
if_vitest(o) == Truthy(o, "vitest")

\* if (options.releaseIt)
if_releaseIt(o) == Truthy(o, "releaseIt")

\* the first argument of this.overrideTestAppFiles(...), as fs.copy resolves it
OverrideDestination(o) == FsResolve(testAppInfoFromOptions(o).location)

\* lines 45-69: every task is started, in array order, before any is awaited
StartTasks ==
    /\ pc \in {"install", "tasks"}
    /\ install_Awaited
    /\ LET pkgFound == PackageJsonPath(options) \in DOMAIN fs
           started ==
               [k \in TaskNames |->
                   CASE k = "manifest"  -> IF pkgFound THEN "running" ELSE "failed"
                     [] k = "override"  -> "copying"
                     [] k = "unlink"    -> "running"
                     [] k = "vitest"    -> IF if_vitest(options) THEN "running" ELSE "idle"
                     [] k = "releaseIt" -> IF if_releaseIt(options) THEN "running" ELSE "idle"]
       IN  /\ task' = started
           /\ touched' = IF pkgFound
                         THEN Touch("manifest", "r", {PackageJsonPath(options)})
                         ELSE touched
           /\ copyDest' = OverrideDestination(options)
           /\ execs' = execs
                  \o (IF if_vitest(options) THEN <<VitestCommand(options)>> ELSE <<>>)
                  \o (IF if_releaseIt(options)
                      THEN <<ReleaseItCommand(options["target"])>> ELSE <<>>)
           /\ IF AnyRejected(started)
              THEN /\ pc' = "returned" /\ result' = "rejected" /\ settledAt' = started
              ELSE /\ pc' = "awaiting" /\ UNCHANGED <<result, settledAt>>
    /\ UNCHANGED <<options, cwd, appOptions, copied, fs, localsOut, blueprintFound,
                   install>>

\* updateTestAppPackageJson: fs.writeFile completes
ManifestWritten ==
    /\ task["manifest"] = "running"
    /\ DirExists(fs, TestAppPath(options))
    /\ fs' = WriteFile(fs, PackageJsonPath(options), "patched")
    /\ touched' = Touch("manifest", "w", {PackageJsonPath(options)})
    /\ task' = [task EXCEPT !["manifest"] = "ok"]
    /\ Settle(task')
    /\ UNCHANGED <<options, cwd, appOptions, copied, copyDest, execs, localsOut,
                   blueprintFound, install>>

\* updateTestAppPackageJson: fs.writeFile fails
ManifestWriteFails ==
    /\ task["manifest"] = "running"
    /\ task' = [task EXCEPT !["manifest"] = "failed"]
    /\ Settle(task')
    /\ UNCHANGED <<options, cwd, appOptions, copied, copyDest, execs, fs, touched,
                   localsOut, blueprintFound, install>>

\* fs-extra refuses a copy onto itself or into a subdirectory of itself
CopyRefused == IsPrefix(OverridesPath(options), copyDest)

\* the files of the staging directory fs.copy has still to copy
CopyPending == {q \in FilesUnder(fs, OverridesPath(options)) :
                    SubSeq(q, Len(OverridesPath(options)) + 1, Len(q)) \notin copied}

\* overrideTestAppFiles: fs.copy copies one file, overwriting the destination
CopyFile ==
    /\ task["override"] = "copying"
    /\ ~CopyRefused
    /\ \E q \in CopyPending :
          LET rel == SubSeq(q, Len(OverridesPath(options)) + 1, Len(q))
          IN  /\ fs' = WriteFile(fs, copyDest \o rel, fs[q])
              /\ copied' = copied \cup {rel}
              /\ touched' = [touched EXCEPT !["override"].r = @ \cup {q},
                                            !["override"].w = @ \cup {copyDest \o rel}]
    /\ UNCHANGED <<options, cwd, pc, result, appOptions, task, copyDest, execs,
                   settledAt, localsOut, blueprintFound, install>>

\* overrideTestAppFiles: fs.copy rejects, so the await throws and remove is skipped
CopyFails ==
    /\ task["override"] = "copying"
    /\ task' = [task EXCEPT !["override"] = "copyFailed"]
    /\ Settle(task')
    /\ UNCHANGED <<options, cwd, appOptions, copied, copyDest, execs, fs, touched,
                   localsOut, blueprintFound, install>>

copy_NotAwaited == TRUE

\* await fs.copy(...): the promise resolves once every staged file is copied
copy_Awaited == ~CopyRefused /\ CopyPending = {}

\* overrideTestAppFiles: the copy has resolved, fs.remove(overridesPath) starts
CopyDone ==
    /\ task["override"] = "copying"
    /\ copy_Awaited
    /\ task' = [task EXCEPT !["override"] = "removing"]
    /\ UNCHANGED <<options, cwd, pc, result, appOptions, copied, copyDest, execs,
                   fs, touched, settledAt, localsOut, blueprintFound, install>>

\* overrideTestAppFiles: fs.remove deletes the staging directory
RemoveDone ==
    /\ task["override"] = "removing"
    /\ fs' = RemoveTree(fs, OverridesPath(options))
    /\ touched' = Touch("override", "d",
                        FilesUnder(fs, OverridesPath(options))
                            \cup {OverridesPath(options)})
    /\ task' = [task EXCEPT !["override"] = "ok"]
    /\ Settle(task')
    /\ UNCHANGED <<options, cwd, appOptions, copied, copyDest, execs, localsOut,
                   blueprintFound, install>>

\* overrideTestAppFiles: fs.remove rejects
RemoveFails ==
    /\ task["override"] = "removing"
    /\ task' = [task EXCEPT !["override"] = "removeFailed"]
    /\ Settle(task')
    /\ UNCHANGED <<options, cwd, appOptions, copied, copyDest, execs, fs, touched,
                   localsOut, blueprintFound, install>>

\* fs.unlink(<testAppPath>/.travis.yml) succeeds
UnlinkDone ==
    /\ task["unlink"] = "running"
    /\ TravisPath(options) \in DOMAIN fs
    /\ fs' = RemoveFile(fs, TravisPath(options))
    /\ touched' = Touch("unlink", "d", {TravisPath(options)})
    /\ task' = [task EXCEPT !["unlink"] = "ok"]
    /\ Settle(task')
    /\ UNCHANGED <<options, cwd, appOptions, copied, copyDest, execs, localsOut,
                   blueprintFound, install>>

\* fs.unlink rejects (the file is missing, or an I/O error)
UnlinkFails ==
    /\ task["unlink"] = "running"
    /\ task' = [task EXCEPT !["unlink"] = "failed"]
    /\ Settle(task')
    /\ UNCHANGED <<options, cwd, appOptions, copied, copyDest, execs, fs, touched,
                   localsOut, blueprintFound, install>>

\* ember new tests -b vitest-blueprint exits 0, the scaffold is in <target>/tests
VitestExitsZero ==
    /\ task["vitest"] = "running"
    /\ LET p == PathJoin(options["target"], TestsLiteral) \o <<VitestConfig>>
       IN  /\ fs' = WriteFile(fs, p, "vitest")
           /\ touched' = Touch("vitest", "w", {p})
    /\ task' = [task EXCEPT !["vitest"] = "ok"]
    /\ Settle(task')
    /\ UNCHANGED <<options, cwd, appOptions, copied, copyDest, execs, localsOut,
                   blueprintFound, install>>

\* the vitest command exits non-zero: execa rejects
VitestExitsNonZero ==
    /\ task["vitest"] = "running"
    /\ task' = [task EXCEPT !["vitest"] = "failed"]
    /\ Settle(task')
    /\ UNCHANGED <<options, cwd, appOptions, copied, copyDest, execs, fs, touched,
                   localsOut, blueprintFound, install>>

\* create-rwjblue-release-it-setup exits 0, having rewritten <target>/package.json
ReleaseItExitsZero ==
    /\ task["releaseIt"] = "running"
    /\ LET p == options["target"] \o <<PackageJson>>
       IN  /\ fs' = WriteFile(fs, p, "release-it")
           /\ touched' = [touched EXCEPT !["releaseIt"].r = @ \cup {p},
                                         !["releaseIt"].w = @ \cup {p}]
    /\ task' = [task EXCEPT !["releaseIt"] = "ok"]
    /\ Settle(task')
    /\ UNCHANGED <<options, cwd, appOptions, copied, copyDest, execs, localsOut,
                   blueprintFound, install>>

\* the release-it command exits non-zero: execa rejects
ReleaseItExitsNonZero ==
    /\ task["releaseIt"] = "running"
    /\ task' = [task EXCEPT !["releaseIt"] = "failed"]
    /\ Settle(task')
    /\ UNCHANGED <<options, cwd, appOptions, copied, copyDest, execs, fs, touched,
                   localsOut, blueprintFound, install>>

\* locals(options), called by the host while it renders the templates
CallLocals ==
    /\ pc = "start"
    /\ localsOut.blueprint = "none"
    /\ localsOut' = locals(options)
    /\ UNCHANGED <<options, cwd, pc, result, appOptions, task, copied, copyDest,
                   execs, fs, touched, settledAt, blueprintFound, install>>

----------------------------------------------------------------------------
(* Inputs                                                                  *)

MaxNameLen == 2

NameAlphabet == {"a", "B", "_"}
Names == UNION {[1..n -> NameAlphabet] : n \in 1..MaxNameLen}

TargetA == << <<"t","m","p">>, <<"x">> >>     \* /tmp/x
TargetB == << <<"w">> >>                      \* /w
Targets == {TargetA, TargetB}

EntityName == <<"m","y","A","d","d","o","n">>
GithubLiteral == <<"g","i","t","h","u","b">>
NestedLocation == <<"p","/","q">>

\* an options record from the optional values given as sets of none or one value
MkOptions(target, opt) ==
    [k \in {"entity", "target"} \cup {key \in DOMAIN opt : opt[key] # {}} |->
        CASE k = "entity" -> [name |-> EntityName]
          [] k = "target" -> target
          [] OTHER -> CHOOSE v \in opt[k] : TRUE]

IdleTasks == [k \in TaskNames |-> "idle"]

InitRest ==
    /\ pc = "start"
    /\ result = "none"
    /\ appOptions = <<>>
    /\ task = IdleTasks
    /\ copied = {}
    /\ copyDest = <<>>
    /\ execs = <<>>
    /\ fs = InitialFs(options)
    /\ touched = [k \in TaskNames |-> NoTouch]
    /\ settledAt = IdleTasks
    /\ install = "none"

\* afterInstall is called after the templates were rendered
Init ==
    /\ \E target \in Targets,
          vitest \in {{}, {TRUE}}, releaseIt \in {{FALSE}, {TRUE}},
          testAppLocation \in {{}, {TestsLiteral}, {OverridesLiteral}},
          testAppName \in {{}, {<<"t", "A">>}} :
            options = MkOptions(target,
                        [vitest |-> vitest, releaseIt |-> releaseIt,
                         testAppLocation |-> testAppLocation,
                         testAppName |-> testAppName])
    /\ cwd \in Targets
    /\ blueprintFound \in BOOLEAN
    /\ localsOut = locals(options)
    /\ InitRest

Next ==
    \/ LookupFails
    \/ CallInstall
    \/ InstallResolves
    \/ InstallRejects
    \/ StartTasks
    \/ ManifestWritten
    \/ ManifestWriteFails
    \/ CopyFile
    \/ CopyFails
    \/ CopyDone
    \/ RemoveDone
    \/ RemoveFails
    \/ UnlinkDone
    \/ UnlinkFails
    \/ VitestExitsZero
    \/ VitestExitsNonZero
    \/ ReleaseItExitsZero
    \/ ReleaseItExitsNonZero

Spec == Init /\ [][Next]_vars

\* the options in full: every flag that locals and appOptions look at
InitOptions ==
    /\ \E target \in Targets,
          welcome \in {{}, {TRUE}}, yarn \in {{}, {TRUE}},
          vitest \in {{}, {TRUE}}, releaseIt \in {{}, {TRUE}},
          skipNpm \in {{}, {FALSE}},
          ciProvider \in {{}, {GithubLiteral}},
          addonLocation \in {{}, {NestedLocation}},
          testAppLocation \in {{}, {TestsLiteral}, {NestedLocation}},
          testAppName \in {{}} \cup {{n} : n \in Names} :
            options = MkOptions(target,
                        [welcome |-> welcome, yarn |-> yarn, vitest |-> vitest,
                         releaseIt |-> releaseIt, skipNpm |-> skipNpm,
                         ciProvider |-> ciProvider, addonLocation |-> addonLocation,
                         testAppLocation |-> testAppLocation,
                         testAppName |-> testAppName])
    /\ cwd = options["target"]
    /\ blueprintFound \in BOOLEAN
    /\ localsOut = [blueprint |-> "none"]
    /\ InitRest

NextOptions ==
    \/ CallLocals
    \/ LookupFails
    \/ CallInstall

SpecOptions == InitOptions /\ [][NextOptions]_vars

----------------------------------------------------------------------------
(* Properties                                                              *)

RemoveStarted == task["override"] \in {"removing", "ok", "removeFailed"}
StagingIntact == \A rel \in StagedFiles : OverridesPath(options) \o rel \in DOMAIN fs

\* C1: in overrideTestAppFiles the removal of the staging directory starts only
\* after the copy has finished (every staged file is at the destination); if
\* the copy fails the staging directory is not removed and afterInstall, the
\* caller, sees the rejection.
C1_RemoveOnlyAfterCopy ==
    /\ RemoveStarted =>
          /\ ~CopyRefused
          /\ StagedFiles \subseteq copied
          /\ \A rel \in StagedFiles : copyDest \o rel \in touched["override"].w
    /\ touched["override"].d # {} => task["override"] = "ok"
    /\ task["override"] = "copyFailed" =>
          /\ touched["override"].d = {}
          /\ StagingIntact
          /\ pc = "returned"
          /\ result = "rejected"

C1_Witness ==
    /\ task["override"] = "ok"
    /\ FilesUnder(fs, OverridesPath(options)) = {}
    /\ \A rel \in StagedFiles : copyDest \o rel \in DOMAIN fs

\* C2 as stated: whenever afterInstall returns, normally or with an error, no
\* task it started is still running.
C2_NoTaskRunningAtReturn ==
    pc = "returned" => \A k \in TaskNames : ~Running(settledAt[k])

\* C2 amended: when afterInstall returns normally every task it started has
\* completed (the three unconditional ones, and vitest / release-it when
\* requested); when it returns with an error after a successful install, a
\* started task has rejected, and others may still be running.
C2_NormalReturnWaitsForAll ==
    /\ (pc = "returned" /\ result = "ok") =>
          /\ \A k \in {"manifest", "override", "unlink"} : settledAt[k] = "ok"
          /\ settledAt["vitest"] = IF Truthy(options, "vitest") THEN "ok" ELSE "idle"
          /\ settledAt["releaseIt"] = IF Truthy(options, "releaseIt") THEN "ok" ELSE "idle"
    /\ (pc = "returned" /\ result = "rejected" /\ install = "ok") =>
          \E k \in TaskNames : Rejected(settledAt[k])

C2_Witness ==
    /\ pc = "returned"
    /\ result = "ok"
    /\ settledAt["vitest"] = "ok"
    /\ settledAt["releaseIt"] = "ok"

\* C3: afterInstall fails whenever the nested generation fails or a started
\* task fails (an external command exiting non-zero included), succeeds only
\* if the generation and every started task succeeded, and leaves the effects
\* of the tasks that succeeded on disk.
C3_FailsIffSomethingFails ==
    /\ install = "failed" => (pc = "returned" /\ result = "rejected")
    /\ (\E k \in TaskNames : Rejected(task[k])) =>
          (pc = "returned" /\ result = "rejected")
    /\ result = "ok" =>
          /\ install = "ok"
          /\ \A k \in TaskNames : task[k] \in {"idle", "ok"}
          /\ \A k \in {"manifest", "override", "unlink"} : task[k] = "ok"
    /\ (task["manifest"] = "ok"
            /\ PackageJsonPath(options) \notin touched["override"].d) =>
          /\ PackageJsonPath(options) \in DOMAIN fs
          /\ fs[PackageJsonPath(options)] = "patched"
    /\ task["unlink"] = "ok" => TravisPath(options) \notin DOMAIN fs
    /\ task["override"] = "ok" =>
          \A rel \in StagedFiles : copyDest \o rel \in DOMAIN fs
    /\ task["vitest"] = "ok" =>
          PathJoin(options["target"], TestsLiteral) \o <<VitestConfig>> \in DOMAIN fs
    /\ task["releaseIt"] = "ok" =>
          fs[options["target"] \o <<PackageJson>>] = "release-it"

C3_Witness ==
    /\ pc = "returned"
    /\ result = "rejected"
    /\ task["vitest"] = "failed"
    /\ task["manifest"] = "ok"
    /\ fs[PackageJsonPath(options)] = "patched"

\* C4: no follow-up task starts and no external process is launched before
\* the nested install has completed; if the install fails none ever starts.
C4_TasksAfterInstall ==
    /\ ((\E k \in TaskNames : task[k] # "idle") \/ execs # <<>>) => install = "ok"
    /\ install # "ok" =>
          /\ task = IdleTasks
          /\ execs = <<>>
          /\ \A k \in TaskNames : touched[k] = NoTouch
          /\ fs = InitialFs(options)

C4_Witness ==
    /\ install = "failed"
    /\ pc = "returned"
    /\ result = "rejected"
    /\ Truthy(options, "vitest")
    /\ Truthy(options, "releaseIt")

\* C5: when the app blueprint cannot be looked up, afterInstall throws the
\* SilentError before doing anything: no nested generation, no file written,
\* copied or deleted, no external process.
C5_MissingBlueprintDoesNothing ==
    ~blueprintFound =>
        /\ install = "none"
        /\ task = IdleTasks
        /\ execs = <<>>
        /\ fs = InitialFs(options)
        /\ \A k \in TaskNames : touched[k] = NoTouch
        /\ pc = "start" \/ (pc = "returned" /\ result = "SilentError")

C5_Witness == ~blueprintFound /\ pc = "returned" /\ result = "SilentError"

CountExecs(file) == Cardinality({i \in DOMAIN execs : execs[i].file = file})

\* C6: the vitest command is launched iff options.vitest is set and the
\* release-it command iff options.releaseIt is set, each at most once, with
\* the commands' exact arguments and working directory options.target; with
\* both flags unset no process is ever launched.  (The launches happen when
\* the follow-up tasks are started, i.e. once the nested install succeeded.)
C6_ExecsGovernedByFlags ==
    /\ \A i \in DOMAIN execs :
          /\ execs[i].cwd = options["target"]
          /\ \/ /\ execs[i] = VitestCommand(options)
                /\ execs[i].args = <<"new", "tests", "-b", "vitest-blueprint",
                                     "--skip-git", "--skip-npm">>
                /\ Has(options, "vitest") /\ options["vitest"] = TRUE
             \/ /\ execs[i].file = "create-rwjblue-release-it-setup"
                /\ execs[i].args = <<"--no-install">>
                /\ Has(options, "releaseIt") /\ options["releaseIt"] = TRUE
    /\ CountExecs("ember") <= 1
    /\ CountExecs("create-rwjblue-release-it-setup") <= 1
    /\ Len(execs) = CountExecs("ember") + CountExecs("create-rwjblue-release-it-setup")
    /\ (install = "ok" /\ pc \in {"awaiting", "returned"}) =>
          /\ CountExecs("ember") = 1
                <=> (Has(options, "vitest") /\ options["vitest"] = TRUE)
          /\ CountExecs("create-rwjblue-release-it-setup") = 1
                <=> (Has(options, "releaseIt") /\ options["releaseIt"] = TRUE)

C6_Witness ==
    /\ pc = "returned"
    /\ result = "ok"
    /\ Has(options, "vitest")
    /\ options["releaseIt"] = FALSE
    /\ Len(execs) = 1

\* C7 as stated: the directory the overrides are copied into is the directory
\* the nested generator generated into, join(options.target, location),
\* whatever the current working directory is.
C7_CopyDestinationIsTestApp ==
    task["override"] # "idle" =>
        /\ copyDest = appOptions["target"]
        /\ copyDest = PathJoin(options["target"], testAppInfoFromOptions(options).location)

RECURSIVE CopyAll(_, _, _, _)
CopyAll(f, src, dest, todo) ==
    IF todo = {} THEN f
    ELSE LET q == CHOOSE x \in todo : TRUE
         IN  CopyAll(WriteFile(f, dest \o SubSeq(q, Len(src) + 1, Len(q)), f[q]),
                     src, dest, todo \ {q})

\* the tree the tasks leave when run one after the other, in array order
SequentialTree(o) ==
    LET f0 == WriteAll(InitialFs(o), TestAppPath(o), AppFiles, "app")
        f1 == WriteFile(f0, PackageJsonPath(o), "patched")
        f2 == CopyAll(f1, OverridesPath(o), copyDest, FilesUnder(f1, OverridesPath(o)))
        f3 == RemoveTree(f2, OverridesPath(o))
        f4 == RemoveFile(f3, TravisPath(o))
        f5 == IF Truthy(o, "vitest")
              THEN WriteFile(f4, PathJoin(o["target"], TestsLiteral) \o <<VitestConfig>>,
                             "vitest")
              ELSE f4
    IN  IF Truthy(o, "releaseIt")
        THEN WriteFile(f5, o["target"] \o <<PackageJson>>, "release-it")
        ELSE f5

\* C8 as stated: the concurrent tasks touch pairwise disjoint paths (no task
\* reads, writes or deletes a path another task writes), and whatever the
\* interleaving the resulting tree is the same.
C8_TasksTouchDisjointPaths ==
    /\ \A t1, t2 \in TaskNames :
          t1 # t2 =>
              touched[t1].w \cap (touched[t2].r \cup touched[t2].w \cup touched[t2].d) = {}
    /\ (pc = "returned" /\ result = "ok") => fs = SequentialTree(options)

FlagTokens(frag) == {i \in DOMAIN frag : frag[i].kind = "flag"}
EntryOf(key) == FlagEntries[CHOOSE i \in DOMAIN FlagEntries : FlagEntries[i].key = key]
OptionalFlagKeys == {FlagEntries[i].key : i \in DOMAIN FlagEntries}

\* C9: the blueprintOptions fragment built by locals is empty when none of
\* welcome, yarn and ciProvider is set; when one of them is set it is
\* non-empty and holds one entry for each optional flag supplied in the
\* options (with the option's value, for the valued flags) and no other entry.
C9_BlueprintOptionsListsSuppliedFlags ==
    localsOut.blueprint = "addon" =>
        LET frag == localsOut.blueprintOptions
            supplied == {k \in OptionalFlagKeys : Truthy(options, k)}
        IN  IF ~(Truthy(options, "welcome") \/ Truthy(options, "yarn")
                    \/ Truthy(options, "ciProvider"))
            THEN Len(frag) = 0
            ELSE /\ Len(frag) > 0
                 /\ Cardinality(FlagTokens(frag)) = Cardinality(supplied)
                 /\ \A k \in supplied :
                       \E i \in FlagTokens(frag) :
                           /\ frag[i].flag = EntryOf(k).flag
                           /\ EntryOf(k).valued => frag[i].value = options[k]
                 /\ \A i \in FlagTokens(frag) :
                       \E k \in supplied : frag[i].flag = EntryOf(k).flag

C9_Witness ==
    /\ localsOut.blueprint = "addon"
    /\ Truthy(options, "ciProvider")
    /\ Truthy(options, "releaseIt")
    /\ Truthy(options, "testAppName")
    /\ ~Truthy(options, "yarn")
    /\ Cardinality(FlagTokens(localsOut.blueprintOptions)) >= 3

ExpectedRawName ==
    IF Has(options, "testAppName") THEN options["testAppName"] ELSE TestAppLiteral

\* C10: the option set passed to the nested generator has none of
\* addonLocation, testAppLocation, testAppName, releaseIt; has skipNpm and
\* skipGit true, welcome false, ciProvider 'travis'; has entity.name, name and
\* rawName equal to the test-app raw name; has target equal to the test-app
\* path; and carries every other key of the options with its value.
C10_AppOptionsDerived ==
    install # "none" =>
        /\ DOMAIN appOptions \cap
              {"addonLocation", "testAppLocation", "testAppName", "releaseIt"} = {}
        /\ appOptions["skipNpm"] = TRUE
        /\ appOptions["skipGit"] = TRUE
        /\ appOptions["welcome"] = FALSE
        /\ appOptions["ciProvider"] = <<"t","r","a","v","i","s">>
        /\ appOptions["entity"] = [name |-> ExpectedRawName]
        /\ appOptions["name"] = ExpectedRawName
        /\ appOptions["rawName"] = ExpectedRawName
        /\ appOptions["target"] =
              PathJoin(options["target"],
                       IF Has(options, "testAppLocation") THEN options["testAppLocation"]
                       ELSE Dasherize(ExpectedRawName))
        /\ (~Has(options, "testAppLocation") /\ ~Has(options, "testAppName")
                /\ options["target"] = TargetA) =>
              appOptions["target"] = << <<"t","m","p">>, <<"x">>, TestAppLiteral >>
        /\ \A k \in DOMAIN options \
                  ({"addonLocation", "testAppLocation", "testAppName", "releaseIt"}
                       \cup OverriddenKeys) :
              k \in DOMAIN appOptions /\ appOptions[k] = options[k]
        /\ options["entity"] = [name |-> EntityName]

C10_Witness ==
    /\ install = "pending"
    /\ Truthy(options, "releaseIt")
    /\ Truthy(options, "addonLocation")
    /\ Has(options, "testAppName")
    /\ options["testAppName"] = <<"a", "B">>
    /\ appOptions["target"] = options["target"] \o << <<"a", "-", "b">> >>
    /\ Has(appOptions, "yarn")
    /\ Has(appOptions, "vitest")

====
